---------------------------- MODULE Spec2Model ----------------------------
(***************************************************************************)
(* Model of the FastAPI metrics service:                                   *)
(*   app/database.py     connection pool (init_db, close_db) and the       *)
(*                       instrumented query primitives                     *)
(*   app/main.py         _startup / _shutdown hooks, background sampler    *)
(*   app/middleware/metrics_middleware.py   MetricsMiddleware.dispatch     *)
(*   app/routers/api.py  create_data, log_request, delete_data             *)
(*   app/routers/health.py, app/metrics/system_metrics.py                  *)
(*                                                                         *)
(* Every coroutine is a small state machine; one action is the code that   *)
(* runs between two await points.                                          *)
(*                                                                         *)
(* database.py uses the names logging (line 56) and asyncio (line 97) and  *)
(* main.py uses os (line 67) without importing them.  A use of an unbound  *)
(* module global raises NameError.  bound_names is the set of those names  *)
(* that are bound in their module's namespace; the files as written bind   *)
(* none of them (bound_names = {}), an embedding that binds them gives the *)
(* other values.  It never changes.                                        *)
(***************************************************************************)
EXTENDS Integers, Sequences, FiniteSets, Bags

\* ------------------------------------------------------------------ bounds
\* requests handled in one run
MaxRequests == 3
\* direct init_db / close_db calls made in one run (SpecPool)
MaxDirectCalls == 2
\* requests handled in one run beside the direct calls (SpecPool)
MaxPoolRequests == 1
\* transient failures of create_pool / the probe while the database is up
MaxFaults == 1

\* ------------------------------------------------------- program constants
max_retries == 5
init_db_retry_delay == 2
startup_max_retries == 5
startup_retry_delay == 1
startup_retry_cap == 10
max_connections == 20

None == 0

MissingNames == {"database.logging", "database.asyncio", "main.os"}

\* tasks that run init_db: the startup hook, and two direct callers
Drivers == {"t1", "t2"}
Tasks == {"startup"} \cup Drivers

VARIABLES
  bound_names,            \* names of MissingNames bound in their module
  pool,                   \* database.pool: None or the id of a pool object
  created,                \* pool objects created so far (ids 1..created)
  closed,                 \* ids of the pool objects closed (or closing)
  probed,                 \* ids of the pool objects whose 'SELECT 1' passed
  probes,                 \* liveness probes issued
  db_connections_active,  \* gauge
  idb,                    \* init_db frame of each task
  cl,                     \* close_db frame of each driver task
  calls,                  \* direct calls of init_db and close_db so far
  st,                     \* _startup frame
  lifecycle,              \* "starting" | "serving" | "stopping" | "stopped"
  background_tasks,       \* main._background_tasks: state of each task
  sd,                     \* _shutdown frame: index of the task being awaited
  process_cpu_percentage, \* gauge: "unset" or "sampled"
  db_mode,                \* "down" | "broken" | "up": the database server
  faults,                 \* transient failures so far (db_mode = "up")
  init_ok,                \* an init_db call returned normally, no close_db since
  reqs,                   \* the requests, in order of arrival
  table,                  \* ids of the rows of user_data
  next_id,                \* next value of the id sequence of user_data
  http_requests_total,            \* counter: bag of <<method, route, status>>
  http_request_duration_seconds,  \* histogram: bag of observations' labels
  db_operations_total,            \* counter: bag of <<operation, status>>
  db_query_duration_seconds       \* histogram: bag of <<operation>>

poolCore == <<pool, created, closed, probed, probes, db_connections_active,
              faults>>
poolVars == <<poolCore, init_ok>>
reqVars == <<reqs, table, next_id, http_requests_total,
             http_request_duration_seconds, db_operations_total,
             db_query_duration_seconds>>
envVars == <<bound_names, db_mode>>
vars == <<bound_names, pool, created, closed, probed, probes,
          db_connections_active, idb, cl, calls, st, lifecycle,
          background_tasks, sd, process_cpu_percentage, db_mode, faults,
          init_ok, reqs, table, next_id, http_requests_total,
          http_request_duration_seconds, db_operations_total,
          db_query_duration_seconds>>

\* ----------------------------------------------------------------- init_db
\* seq: which direct call the frame belongs to; creates: create_pool calls
IdleFrame == [pc |-> "idle", attempt |-> 0, retry_delay |-> 0,
              creates |-> 0, exc |-> "none", seq |-> 0]

\* init_db without the guard of lines 46-47
InitDbEnterNoGuard(f) ==
  IF "database.logging" \notin bound_names
    THEN [f EXCEPT !.pc = "raised", !.exc = "NameError"]
    ELSE [f EXCEPT !.pc = "create", !.attempt = 1,
                   !.retry_delay = init_db_retry_delay, !.exc = "none"]

\* database.py:45-64: the code of init_db up to its first await
InitDbEnter(f) ==
  IF pool # None
    THEN [f EXCEPT !.pc = "returned", !.exc = "none"]
    ELSE IF "database.logging" \notin bound_names
      THEN [f EXCEPT !.pc = "raised", !.exc = "NameError"]
      ELSE [f EXCEPT !.pc = "create", !.attempt = 1,
                     !.retry_delay = init_db_retry_delay, !.exc = "none"]

\* database.py:93-101: the except clause of one attempt
InitDbExcept(f, e) ==
  IF f.attempt < max_retries
    THEN IF "database.asyncio" \in bound_names
           THEN [f EXCEPT !.pc = "sleep"]
           ELSE [f EXCEPT !.pc = "raised", !.exc = "NameError"]
    ELSE [f EXCEPT !.pc = "raised", !.exc = e]

\* the database server: create_pool / the probe may fail, may succeed
CreateMayFail == db_mode = "down" \/ (db_mode = "up" /\ faults < MaxFaults)
CreateMayOk == db_mode # "down"
ProbeMayFail == db_mode = "broken" \/ (db_mode = "up" /\ faults < MaxFaults)
ProbeMayOk == db_mode = "up"
Fault == IF db_mode = "up" THEN faults + 1 ELSE faults

\* database.py:67-82: create_pool fails
InitDbCreateFails(t) ==
  /\ idb[t].pc = "create"
  /\ CreateMayFail
  /\ faults' = Fault
  /\ idb' = [idb EXCEPT ![t] =
       InitDbExcept([idb[t] EXCEPT !.creates = @ + 1], "ConnectionError")]
  /\ UNCHANGED <<pool, created, closed, probed, probes,
                 db_connections_active, init_ok>>

\* database.py:67-82: create_pool returns a new pool, bound to the global
InitDbCreateOk(t) ==
  /\ idb[t].pc = "create"
  /\ CreateMayOk
  /\ created' = created + 1
  /\ pool' = created + 1
  /\ idb' = [idb EXCEPT ![t] = [@ EXCEPT !.creates = @ + 1, !.pc = "probe"]]
  /\ UNCHANGED <<closed, probed, probes, db_connections_active, faults,
                 init_ok>>

\* database.py:85-86: pool.acquire() on None or on a closed pool raises
InitDbProbeNoPool(t) ==
  /\ idb[t].pc = "probe"
  /\ pool = None \/ pool \in closed
  /\ idb' = [idb EXCEPT ![t] = InitDbExcept(@,
       IF pool = None THEN "AttributeError" ELSE "InterfaceError")]
  /\ UNCHANGED poolVars

\* database.py:85-86, 93-101: 'SELECT 1' fails on the global pool
InitDbProbeFails(t) ==
  /\ idb[t].pc = "probe"
  /\ pool # None /\ pool \notin closed
  /\ ProbeMayFail
  /\ probes' = probes + 1
  /\ faults' = Fault
  /\ idb' = [idb EXCEPT ![t] = InitDbExcept(@, "ProbeError")]
  /\ UNCHANGED <<pool, created, closed, probed, db_connections_active,
                 init_ok>>

\* database.py:85-91: 'SELECT 1' passes, the gauge is set, init_db returns
InitDbProbeOk(t) ==
  /\ idb[t].pc = "probe"
  /\ pool # None /\ pool \notin closed
  /\ ProbeMayOk
  /\ probes' = probes + 1
  /\ probed' = probed \cup {pool}
  /\ db_connections_active' = max_connections
  /\ init_ok' = TRUE
  /\ idb' = [idb EXCEPT ![t] = [@ EXCEPT !.pc = "returned"]]
  /\ UNCHANGED <<pool, created, closed, faults>>

\* database.py:97-98: the backoff sleep ends, next attempt
InitDbSleepDone(t) ==
  /\ idb[t].pc = "sleep"
  /\ idb' = [idb EXCEPT ![t] = [@ EXCEPT !.pc = "create",
                                         !.attempt = @ + 1,
                                         !.retry_delay = @ * 2]]
  /\ UNCHANGED poolVars

InitDbStep(t) ==
  \/ InitDbCreateFails(t)
  \/ InitDbCreateOk(t)
  \/ InitDbProbeNoPool(t)
  \/ InitDbProbeFails(t)
  \/ InitDbProbeOk(t)
  \/ InitDbSleepDone(t)

\* ---------------------------------------------------------------- _startup
Min(a, b) == IF a < b THEN a ELSE b

\* main.py:90-95: the sampler task is created, startup completes
StartupComplete(s) ==
  [s EXCEPT !.pc = "returned", !.outcome = "complete",
            !.attempt = 0, !.retry_delay = 0]

\* main.py:96-100: the outer except logs the error and returns normally
StartupOuterExcept(s) ==
  [s EXCEPT !.pc = "returned", !.outcome = "swallowed",
            !.attempt = 0, !.retry_delay = 0]

\* the try block creating the sampler however it ends
StartupTasksAlways(raised) == Append(background_tasks, "created")

\* main.py:90-100: _background_tasks when the try block of the hook ends;
\* create_task (line 92) runs only if the retry loop was left by break
StartupTasks(raised) ==
  IF raised THEN background_tasks ELSE Append(background_tasks, "created")

\* main.py:62-78: entry of the hook up to the first await inside init_db
StartupBegin ==
  /\ lifecycle = "starting"
  /\ st.pc = "init"
  /\ IF "main.os" \notin bound_names
       THEN /\ st' = StartupOuterExcept(st)
            /\ background_tasks' = StartupTasks(TRUE)
            /\ lifecycle' = "serving"
            /\ UNCHANGED idb
       ELSE /\ st' = [st EXCEPT !.pc = "await_init", !.attempt = 1,
                                !.retry_delay = startup_retry_delay]
            /\ idb' = [idb EXCEPT !["startup"] = InitDbEnter(@)]
            /\ UNCHANGED <<lifecycle, background_tasks>>
  /\ init_ok' = (init_ok \/ idb'["startup"].pc = "returned")
  /\ UNCHANGED <<envVars, reqVars, poolCore, cl, calls, sd,
                 process_cpu_percentage>>

\* main.py:78-80, 90-95: init_db returned, leave the loop, start the sampler
StartupInitReturned ==
  /\ st.pc = "await_init"
  /\ idb["startup"].pc = "returned"
  /\ background_tasks' = StartupTasks(FALSE)
  /\ st' = StartupComplete([st EXCEPT !.creates = @ + idb["startup"].creates])
  /\ idb' = [idb EXCEPT !["startup"] = IdleFrame]
  /\ lifecycle' = "serving"
  /\ UNCHANGED <<envVars, reqVars, poolVars, cl, calls, sd, process_cpu_percentage>>

\* main.py:81-88, 96-100: init_db raised
StartupInitRaised ==
  /\ st.pc = "await_init"
  /\ idb["startup"].pc = "raised"
  /\ LET s == [st EXCEPT !.creates = @ + idb["startup"].creates] IN
       IF st.attempt = startup_max_retries
         THEN /\ st' = StartupOuterExcept(s)
              /\ background_tasks' = StartupTasks(TRUE)
              /\ lifecycle' = "serving"
         ELSE /\ st' = [s EXCEPT !.pc = "sleep"]
              /\ UNCHANGED <<lifecycle, background_tasks>>
  /\ idb' = [idb EXCEPT !["startup"] = IdleFrame]
  /\ UNCHANGED <<envVars, reqVars, poolVars, cl, calls, sd,
                 process_cpu_percentage>>

\* main.py:87-88, 75-78: the sleep ends, next attempt calls init_db again
StartupSleepDone ==
  /\ st.pc = "sleep"
  /\ st' = [st EXCEPT !.pc = "await_init", !.attempt = @ + 1,
                      !.retry_delay = Min(@ * 2, startup_retry_cap)]
  /\ idb' = [idb EXCEPT !["startup"] = InitDbEnter(@)]
  /\ init_ok' = (init_ok \/ idb'["startup"].pc = "returned")
  /\ UNCHANGED <<envVars, reqVars, poolCore, cl, calls, lifecycle,
                 background_tasks, sd, process_cpu_percentage>>

\* a step of the init_db call the hook is awaiting
StartupInitDbStep ==
  /\ st.pc = "await_init"
  /\ InitDbStep("startup")
  /\ UNCHANGED <<envVars, reqVars, cl, calls, st, lifecycle, background_tasks, sd,
                 process_cpu_percentage>>

\* ----------------------------------------------------- collect_cpu_percent
\* system_metrics.py:21-23: first run of the task: baseline, then sleep
SamplerBaseline(i) ==
  /\ background_tasks[i] = "created"
  /\ background_tasks' = [background_tasks EXCEPT ![i] = "sleeping"]
  /\ UNCHANGED <<envVars, reqVars, poolVars, idb, cl, calls, st, lifecycle, sd,
                 process_cpu_percentage>>

\* system_metrics.py:24-26: the sleep ends, the gauge is overwritten
SamplerTick(i) ==
  /\ background_tasks[i] = "sleeping"
  /\ process_cpu_percentage' = "sampled"
  /\ UNCHANGED <<envVars, reqVars, poolVars, idb, cl, calls, st, lifecycle,
                 background_tasks, sd>>

\* --------------------------------------------------------------- _shutdown
\* the server runs the shutdown hook
ShutdownBegin ==
  /\ lifecycle = "serving"
  /\ \A r \in 1..Len(reqs) : reqs[r].pc = "done"
  /\ lifecycle' = "stopping"
  /\ sd' = 1
  /\ UNCHANGED <<envVars, reqVars, poolVars, idb, cl, calls, st, background_tasks,
                 process_cpu_percentage>>

\* main.py:106-109: cancel one task and await it
ShutdownCancel ==
  /\ lifecycle = "stopping"
  /\ sd <= Len(background_tasks)
  /\ background_tasks' = [background_tasks EXCEPT ![sd] = "cancelled"]
  /\ sd' = sd + 1
  /\ UNCHANGED <<envVars, reqVars, poolVars, idb, cl, calls, st, lifecycle,
                 process_cpu_percentage>>

\* main.py:111: the loop is over, the hook returns
ShutdownDone ==
  /\ lifecycle = "stopping"
  /\ sd > Len(background_tasks)
  /\ lifecycle' = "stopped"
  /\ UNCHANGED <<envVars, reqVars, poolVars, idb, cl, calls, st, background_tasks,
                 sd, process_cpu_percentage>>

\* ------------------------------------------------------------------ metrics
ACTION_STATUS_SUCCESS == "success"
ACTION_STATUS_ERROR == "error"

\* label names each metric is declared with (app/metrics/__init__.py)
LabelNames(metric) ==
  CASE metric = "http_requests_total" -> {"method", "route", "status_code"}
    [] metric = "http_request_duration_seconds" ->
         {"method", "route", "status_code"}
    [] metric = "db_operations_total" -> {"operation", "status"}
    [] metric = "db_query_duration_seconds" -> {"operation"}

\* metric.labels(**kwargs): ValueError unless kwargs name the declared labels
LabelsOk(metric, kwargs) == kwargs = LabelNames(metric)

\* .inc() / .observe() on one label set
Record(metric, labels) == metric (+) SetToBag({labels})

\* ------------------------------------------------------- query primitives
Primitives == {"fetch", "fetchrow", "execute", "execute_returning"}

\* database.py:160, 174, 188, 202: the guard of every primitive
PoolNotInitialized(prim) == pool = None

\* database.py:164, 178, 191, 206: the operation label of the wrapped call
Operation(prim, verb) ==
  CASE prim = "fetch" -> "select"
    [] prim = "fetchrow" -> "select"
    [] prim = "execute" -> verb
    [] prim = "execute_returning" -> "modify"

\* the wrapper counting every call as a success
InstrumentStatusSuccess(raised) == ACTION_STATUS_SUCCESS

\* database.py:138-148: the outcome label the wrapper counts
InstrumentStatus(raised) ==
  IF raised THEN ACTION_STATUS_ERROR ELSE ACTION_STATUS_SUCCESS

\* database.py:136-151: counter and histogram after one wrapped call
InstrumentOps(operation, raised) ==
  Record(db_operations_total, <<operation, InstrumentStatus(raised)>>)
InstrumentDurations(operation) ==
  Record(db_query_duration_seconds, <<operation>>)

\* database.py:154-155: the gauge after one wrapped call
InstrumentGauge ==
  IF pool # None THEN max_connections ELSE db_connections_active

\* database.py:143-148: what leaves the wrapper when the operation raised e
InstrumentRaise(e) == e

\* ---------------------------------------------------------------- requests
NewRequest(method, path, item) ==
  [method |-> method, path |-> path, item |-> item, pc |-> "new",
   response |-> None, exc |-> "none", prim |-> "none", op |-> "none",
   ref |-> None, ready |-> FALSE, invoked |-> 0, db_raised |-> "none",
   prim_exc |-> "none", wrapper |-> "none", db_inc |-> 0, db_obs |-> 0,
   dbres |-> "none", http_inc |-> 0, http_obs |-> 0, label_status |-> 0,
   bg |-> "none", outcome |-> "none"]

lifeVars == <<idb, cl, calls, st, lifecycle, background_tasks, sd,
              process_cpu_percentage>>

Accepting(limit) == lifecycle = "serving" /\ Len(reqs) < limit

DeletePath(item) == IF item = 1 THEN "/api/data/1" ELSE "/api/data/2"
ItemIds == {1, 2}

\* health.py:11-17 behind dispatch: no await that touches shared state
ReqHealth(limit) ==
  /\ Accepting(limit)
  /\ reqs' = Append(reqs, [NewRequest("GET", "/health", 0) EXCEPT
                              !.pc = "finally", !.response = 200])
  /\ UNCHANGED <<envVars, poolVars, lifeVars, table, next_id,
                 http_requests_total, http_request_duration_seconds,
                 db_operations_total, db_query_duration_seconds>>

\* main.py:39-42 behind dispatch: generate_latest returns, or raises
ReqMetrics(limit) ==
  /\ Accepting(limit)
  /\ \E raises \in BOOLEAN :
       reqs' = Append(reqs, [NewRequest("GET", "/metrics", 0) EXCEPT
                 !.pc = "finally",
                 !.response = IF raises THEN None ELSE 200,
                 !.exc = IF raises THEN "HandlerError" ELSE "none"])
  /\ UNCHANGED <<envVars, poolVars, lifeVars, table, next_id,
                 http_requests_total, http_request_duration_seconds,
                 db_operations_total, db_query_duration_seconds>>

\* api.py:27-38: the body does not validate, the framework answers 422
ReqCreateInvalid(limit) ==
  /\ Accepting(limit)
  /\ reqs' = Append(reqs, [NewRequest("POST", "/api/data", 0) EXCEPT
                              !.pc = "finally", !.response = 422])
  /\ UNCHANGED <<envVars, poolVars, lifeVars, table, next_id,
                 http_requests_total, http_request_duration_seconds,
                 db_operations_total, db_query_duration_seconds>>

\* a handler calls a primitive: database.py:158-211 and 132-137, up to the
\* await of the pool operation; q is the request
CallPrimitive(q, prim, verb) ==
  IF PoolNotInitialized(prim)
    THEN [q EXCEPT !.prim = prim, !.ready = init_ok,
                   !.prim_exc = "RuntimeError", !.pc = "failed"]
    ELSE [q EXCEPT !.prim = prim, !.ready = init_ok,
                   !.op = Operation(prim, verb), !.ref = pool,
                   !.invoked = @ + 1, !.pc = "db"]

\* api.py:128-131, 143-148, 218-223: the handler's own count of the call
HandlerCount(counter, h, status) == Record(counter, <<h, status>>)

\* api.py:136-149, 218-227: the call raised, the handler answers 500
HandlerFailed(q) == [q EXCEPT !.pc = "finally", !.response = 500]

\* delete_data without the check of the result
DeleteResponseAlways204(result) == 204

\* api.py:207-214: the status delete_data answers for a result of execute
DeleteResponse(result) == IF result = "DELETE 0" THEN 404 ELSE 204

\* the status string of DELETE for the number of rows it removed
DeleteStatus(n) == IF n = 0 THEN "DELETE 0" ELSE "DELETE 1"

\* the handler label of a request's route
HandlerLabel(q) == IF q.method = "POST" THEN "create" ELSE "delete"

\* counter increments between two values of a counter
Delta(new, old) == BagCardinality(new) - BagCardinality(old)

\* api.py:61-96 with a valid body: create_data up to the await in fetchrow;
\* without a pool: api.py:136-149, answer 500
ReqCreate(limit) ==
  /\ Accepting(limit)
  /\ LET q == CallPrimitive(NewRequest("POST", "/api/data", 0),
                            "fetchrow", "insert")
         ops == IF q.pc = "failed"
                  THEN HandlerCount(db_operations_total, "create", "error")
                  ELSE db_operations_total
     IN
       /\ db_operations_total' = ops
       /\ reqs' = Append(reqs,
            IF q.pc = "failed"
              THEN [HandlerFailed(q) EXCEPT
                      !.db_inc = Delta(ops, db_operations_total)]
              ELSE q)
  /\ UNCHANGED <<envVars, poolVars, lifeVars, table, next_id,
                 http_requests_total, http_request_duration_seconds,
                 db_query_duration_seconds>>

\* api.py:196-206: delete_data up to the await in execute;
\* without a pool: api.py:218-227, answer 500
ReqDelete(limit) ==
  /\ Accepting(limit)
  /\ \E item \in ItemIds :
       LET q == CallPrimitive(NewRequest("DELETE", DeletePath(item), item),
                              "execute", "delete")
           ops == IF q.pc = "failed"
                    THEN HandlerCount(db_operations_total, "delete", "error")
                    ELSE db_operations_total
       IN
         /\ db_operations_total' = ops
         /\ reqs' = Append(reqs,
              IF q.pc = "failed"
                THEN [HandlerFailed(q) EXCEPT
                        !.db_inc = Delta(ops, db_operations_total)]
                ELSE q)
  /\ UNCHANGED <<envVars, poolVars, lifeVars, table, next_id,
                 http_requests_total, http_request_duration_seconds,
                 db_query_duration_seconds>>

\* the pool operation of request r raises: database.py:143-155, then the
\* handler's except clause (api.py:136-149 or 218-227)
DbRaises(r) ==
  /\ reqs[r].pc = "db"
  /\ LET q == reqs[r]
         e == IF q.ref \in closed THEN "InterfaceError" ELSE "PostgresError"
         ops1 == InstrumentOps(q.op, TRUE)
         ops == HandlerCount(ops1, HandlerLabel(q), "error")
         durs == InstrumentDurations(q.op)
     IN
       /\ db_operations_total' = ops
       /\ db_query_duration_seconds' = durs
       /\ db_connections_active' = InstrumentGauge
       /\ reqs' = [reqs EXCEPT ![r] = [HandlerFailed(q) EXCEPT
            !.db_raised = e,
            !.prim_exc = InstrumentRaise(e),
            !.wrapper = IF Delta(ops1, db_operations_total) = 0 THEN "none"
                        ELSE InstrumentStatus(TRUE),
            !.db_inc = Delta(ops, db_operations_total),
            !.db_obs = Delta(durs, db_query_duration_seconds)]]
  /\ UNCHANGED <<envVars, pool, created, closed, probed, probes, faults,
                 init_ok, lifeVars, table, next_id, http_requests_total,
                 http_request_duration_seconds>>

\* the INSERT of request r returns its row: database.py:137-142, 149-155,
\* 183, then api.py:97-134, answer 201
DbReturnsCreate(r) ==
  /\ reqs[r].pc = "db"
  /\ reqs[r].method = "POST"
  /\ reqs[r].ref \notin closed
  /\ LET q == reqs[r]
         ops1 == InstrumentOps(q.op, FALSE)
         ops == HandlerCount(ops1, "create", "success")
         durs == InstrumentDurations(q.op)
     IN
       /\ table' = table \cup {next_id}
       /\ next_id' = next_id + 1
       /\ db_operations_total' = ops
       /\ db_query_duration_seconds' = durs
       /\ db_connections_active' = InstrumentGauge
       /\ reqs' = [reqs EXCEPT ![r] = [q EXCEPT
            !.pc = "finally", !.response = 201, !.item = next_id,
            !.dbres = "row", !.bg = "scheduled",
            !.wrapper = InstrumentStatus(FALSE),
            !.db_inc = Delta(ops, db_operations_total),
            !.db_obs = Delta(durs, db_query_duration_seconds)]]
  /\ UNCHANGED <<envVars, pool, created, closed, probed, probes, faults,
                 init_ok, lifeVars, http_requests_total,
                 http_request_duration_seconds>>

\* the DELETE of request r returns its status: database.py:137-142,
\* 149-155, then api.py:207-217, answer 404 or 204
DbReturnsDelete(r) ==
  /\ reqs[r].pc = "db"
  /\ reqs[r].method = "DELETE"
  /\ reqs[r].ref \notin closed
  /\ LET q == reqs[r]
         result == DeleteStatus(Cardinality(table \cap {q.item}))
         ops == InstrumentOps(q.op, FALSE)
         durs == InstrumentDurations(q.op)
     IN
       /\ table' = table \ {q.item}
       /\ db_operations_total' = ops
       /\ db_query_duration_seconds' = durs
       /\ db_connections_active' = InstrumentGauge
       /\ reqs' = [reqs EXCEPT ![r] = [q EXCEPT
            !.pc = "finally", !.response = DeleteResponse(result),
            !.dbres = result,
            !.wrapper = InstrumentStatus(FALSE),
            !.db_inc = Delta(ops, db_operations_total),
            !.db_obs = Delta(durs, db_query_duration_seconds)]]
  /\ UNCHANGED <<envVars, pool, created, closed, probed, probes, faults,
                 init_ok, lifeVars, next_id, http_requests_total,
                 http_request_duration_seconds>>

\* ------------------------------------------------------ MetricsMiddleware
\* the status label without the fallback of a failed call_next
DispatchStatusOk(response) == IF response # None THEN response ELSE 200

\* metrics_middleware.py:27: the status label
DispatchStatus(response) == IF response # None THEN response ELSE 500

\* the counter incremented after call_next instead of in the finally clause
DispatchCounterOnSuccess(q) ==
  IF q.response = None
    THEN http_requests_total
    ELSE Record(http_requests_total, <<q.method, q.path, q.response>>)

\* metrics_middleware.py:30-34: the counter after dispatch's finally
DispatchCounter(q) ==
  Record(http_requests_total, <<q.method, q.path, DispatchStatus(q.response)>>)

\* metrics_middleware.py:36-41: the histogram after dispatch's finally
DispatchHistogram(q) ==
  Record(http_request_duration_seconds,
         <<q.method, q.path, DispatchStatus(q.response)>>)

\* metrics_middleware.py:22-25: what leaves dispatch: the response, or the
\* failure of call_next
DispatchOutcome(q) == IF q.exc = "none" THEN "response" ELSE "raised"

\* metrics_middleware.py:25-41: the finally clause of dispatch for request r
Dispatch(r) ==
  /\ reqs[r].pc = "finally"
  /\ LET q == reqs[r]
         ok == LabelsOk("http_requests_total",
                        {"method", "route", "status_code"})
         counter == IF ok THEN DispatchCounter(q) ELSE http_requests_total
         histogram == IF ok THEN DispatchHistogram(q)
                            ELSE http_request_duration_seconds
     IN
       /\ http_requests_total' = counter
       /\ http_request_duration_seconds' = histogram
       /\ reqs' = [reqs EXCEPT ![r] = [q EXCEPT
            !.pc = IF q.bg = "scheduled" THEN "background" ELSE "done",
            !.exc = IF ok THEN q.exc ELSE "ValueError",
            !.http_inc = @ + Delta(counter, http_requests_total),
            !.http_obs = @ + Delta(histogram, http_request_duration_seconds),
            !.label_status = DispatchStatus(q.response),
            !.outcome = IF ok THEN DispatchOutcome(q) ELSE "raised"]]
  /\ UNCHANGED <<envVars, poolVars, lifeVars, table, next_id,
                 db_operations_total, db_query_duration_seconds>>

\* api.py:162-183: the background task of a created item
LogRequest(r) ==
  /\ reqs[r].pc = "background"
  /\ LET q == reqs[r]
         ok1 == LabelsOk("http_requests_total",
                         {"method", "endpoint", "status_code"})
         ok2 == ok1 /\ LabelsOk("http_request_duration_seconds",
                                {"method", "endpoint"})
         counter == IF ok1 THEN Record(http_requests_total,
                                       <<q.method, q.path, 201>>)
                           ELSE http_requests_total
         histogram == IF ok2 THEN Record(http_request_duration_seconds,
                                         <<q.method, q.path>>)
                             ELSE http_request_duration_seconds
     IN
       /\ http_requests_total' = counter
       /\ http_request_duration_seconds' = histogram
       /\ reqs' = [reqs EXCEPT ![r] = [q EXCEPT
            !.pc = "done",
            !.bg = IF ok2 THEN "ran" ELSE "ValueError",
            !.http_inc = @ + Delta(counter, http_requests_total),
            !.http_obs = @ + Delta(histogram, http_request_duration_seconds)]]
  /\ UNCHANGED <<envVars, poolVars, lifeVars, table, next_id,
                 db_operations_total, db_query_duration_seconds>>

\* ------------------------------------------------- direct use of database
RunningInitDb(t) == idb[t].pc \in {"create", "probe", "sleep"}

\* a task calls init_db(): database.py:45-64
DriverInitDb(t) ==
  /\ calls < MaxDirectCalls
  /\ ~RunningInitDb(t)
  /\ cl[t].pc = "idle"
  /\ calls' = calls + 1
  /\ idb' = [idb EXCEPT ![t] = InitDbEnter([IdleFrame EXCEPT !.seq = calls + 1])]
  /\ init_ok' = (init_ok \/ idb'[t].pc = "returned")
  /\ UNCHANGED <<envVars, reqVars, poolCore, cl, st, lifecycle,
                 background_tasks, sd, process_cpu_percentage>>

\* a step of a direct init_db call
DriverInitDbStep(t) ==
  /\ InitDbStep(t)
  /\ UNCHANGED <<envVars, reqVars, cl, calls, st, lifecycle,
                 background_tasks, sd, process_cpu_percentage>>

\* a task calls close_db(): database.py:106-108, up to the await of close
DriverCloseDb(t) ==
  /\ calls < MaxDirectCalls
  /\ ~RunningInitDb(t)
  /\ cl[t].pc = "idle"
  /\ calls' = calls + 1
  /\ IF pool # None
       THEN /\ closed' = closed \cup {pool}
            /\ cl' = [cl EXCEPT ![t] = [pc |-> "closing", ref |-> pool]]
       ELSE UNCHANGED <<closed, cl>>
  /\ UNCHANGED <<envVars, reqVars, pool, created, probed, probes,
                 db_connections_active, faults, init_ok, idb, st, lifecycle,
                 background_tasks, sd, process_cpu_percentage>>

\* database.py:109: pool.close() is over, the global is reset
DriverCloseDone(t) ==
  /\ cl[t].pc = "closing"
  /\ pool' = None
  /\ init_ok' = FALSE
  /\ cl' = [cl EXCEPT ![t] = [pc |-> "idle", ref |-> None]]
  /\ UNCHANGED <<envVars, reqVars, created, closed, probed, probes,
                 db_connections_active, faults, idb, calls, st, lifecycle,
                 background_tasks, sd, process_cpu_percentage>>

\* ---------------------------------------------------------- specification
InitCommon ==
  /\ bound_names \in SUBSET MissingNames
  /\ pool = None
  /\ created = 0
  /\ closed = {}
  /\ probed = {}
  /\ probes = 0
  /\ db_connections_active = 0
  /\ idb = [t \in Tasks |-> IdleFrame]
  /\ cl = [t \in Drivers |-> [pc |-> "idle", ref |-> None]]
  /\ calls = 0
  /\ st = [pc |-> "init", attempt |-> 0, retry_delay |-> 0, creates |-> 0,
           outcome |-> "none"]
  /\ background_tasks = <<>>
  /\ sd = 0
  /\ process_cpu_percentage = "unset"
  /\ db_mode \in {"down", "broken", "up"}
  /\ faults = 0
  /\ init_ok = FALSE
  /\ reqs = <<>>
  /\ table = {}
  /\ next_id = 1
  /\ http_requests_total = EmptyBag
  /\ http_request_duration_seconds = EmptyBag
  /\ db_operations_total = EmptyBag
  /\ db_query_duration_seconds = EmptyBag

\* the application under a server that runs the startup and shutdown hooks
Init == InitCommon /\ lifecycle = "starting"

Requests(limit) ==
  \/ ReqHealth(limit)
  \/ ReqMetrics(limit)
  \/ ReqCreateInvalid(limit)
  \/ ReqCreate(limit)
  \/ ReqDelete(limit)
  \/ \E r \in 1..Len(reqs) : DbRaises(r)
  \/ \E r \in 1..Len(reqs) : DbReturnsCreate(r)
  \/ \E r \in 1..Len(reqs) : DbReturnsDelete(r)
  \/ \E r \in 1..Len(reqs) : Dispatch(r)
  \/ \E r \in 1..Len(reqs) : LogRequest(r)

Next ==
  \/ StartupBegin
  \/ StartupInitDbStep
  \/ StartupInitReturned
  \/ StartupInitRaised
  \/ StartupSleepDone
  \/ \E i \in 1..Len(background_tasks) : SamplerBaseline(i)
  \/ \E i \in 1..Len(background_tasks) : SamplerTick(i)
  \/ Requests(MaxRequests)
  \/ ShutdownBegin
  \/ ShutdownCancel
  \/ ShutdownDone

Spec == Init /\ [][Next]_vars

\* the application served without its lifespan hooks, and tasks that call
\* init_db and close_db of app.database directly
InitPool == InitCommon /\ lifecycle = "serving"

NextPool ==
  \/ \E t \in Drivers : DriverInitDb(t)
  \/ \E t \in Drivers : DriverInitDbStep(t)
  \/ \E t \in Drivers : DriverCloseDb(t)
  \/ \E t \in Drivers : DriverCloseDone(t)
  \/ Requests(MaxPoolRequests)

SpecPool == InitPool /\ [][NextPool]_vars

\* ------------------------------------------------------------------ claims
Done(r) == reqs[r].pc = "done"
AllDone == \A r \in 1..Len(reqs) : Done(r)
PastCall(r) == reqs[r].pc \in {"finally", "background", "done"}

C2_FiveAttemptsThenFatal ==
  (st.pc = "returned" /\ db_mode = "down") =>
    (st.creates = max_retries /\ st.outcome = "raised")

\* C3: the service accepts traffic only with a pool whose liveness probe
\* passed; _startup never returns normally without one.
C3_ServingOnlyWithPool ==
  lifecycle = "serving" => (pool # None /\ pool \in probed)

C7_RaisingHandlerCounted ==
  \A r \in 1..Len(reqs) :
    (Done(r) /\ reqs[r].response = None) =>
      /\ reqs[r].http_inc = 1
      /\ reqs[r].http_obs = 1
      /\ reqs[r].label_status = 500
      /\ CopiesIn(<<reqs[r].method, reqs[r].path, 500>>,
                  http_requests_total) >= 1
      /\ CopiesIn(<<reqs[r].method, reqs[r].path, 500>>,
                  http_request_duration_seconds) >= 1
      /\ reqs[r].outcome = "raised"
      /\ reqs[r].exc = "HandlerError"

C7_Witness ==
  \E r \in 1..Len(reqs) :
    /\ Done(r)
    /\ reqs[r].response = None
    /\ reqs[r].exc = "HandlerError"
    /\ reqs[r].label_status = 500

=============================================================================
